---- MODULE Spec2Model ----
(***************************************************************************)
(* trello-weekly-report: the report widget (three versions of the          *)
(* generate-report handler), the proxy server (two versions of the route   *)
(* table) and the Power-Up token flow.                                     *)
(*                                                                         *)
(*   Spec        the report widget, one generate-report run                *)
(*   SpecServer  the proxy server, MaxRequests requests in flight          *)
(*   SpecAuth    authorize / testConnection / trelloGet sharing the        *)
(*               per-member token store                                    *)
(***************************************************************************)
EXTENDS Integers, Sequences, FiniteSets, TLC

VARIABLES
  \* ---- report widget ----
  variant,        \* which version of the click handler is loaded
  pc,             \* position of the running handler
  startInput,     \* value of #start-date when the button was clicked
  endInput,       \* value of #end-date when the button was clicked
  listsResponse,  \* state of the lists request
  cardsResponse,  \* state of the cards request
  lists,          \* the lists array once obtained
  cards,          \* the cards array once obtained
  doneFetch,      \* state of trelloGet(lists/<done>/cards)
  doingFetch,     \* state of trelloGet(lists/<doing>/cards)
  doneCards,      \* result of the first trelloGet
  doingCards,     \* result of the second trelloGet
  fetchesStarted, \* number of fetch() calls the run has made
  loading,        \* the loading placeholder / spinner is displayed
  errorMsg,       \* the error message shown ("" when none)
  rendered,       \* displayReport / populateReportTable has run
  report,         \* the cards of the rendered table, in row order
  \* ---- proxy server ----
  serverFile,     \* which server file is running
  req,            \* the requests: path, boardId, progress, response
  processUp,      \* the node process is alive
  \* ---- token flow ----
  tokenStore,     \* t.get/t.set('member','private','token')
  ops,            \* the token-needing operations in flight
  popups,         \* number of t.authorize popups opened
  popupsWithToken, \* popups opened while the store already held a token
  \* ---- report table ----
  renderer,       \* which rendering function is called
  renderPc,       \* "called" before the function runs, "rendered" after
  renderArgs,     \* the arguments of the call
  tableHeader,    \* <<n>> when a "Completed Tasks (n)" heading is shown
  tableRows,      \* the rows of the table body, in order
  sendEmailDisabled, \* #send-email-btn is disabled
  \* ---- rate limiter ----
  clock,          \* Date.now()
  lastCall,       \* rateLimiter.lastCall
  runs,           \* the generateReport runs: position, call number, timer
  leaves          \* the returns of throttle(): run, call number, time

widgetVars == <<variant, pc, startInput, endInput, listsResponse, cardsResponse,
                lists, cards, doneFetch, doingFetch, doneCards, doingCards,
                fetchesStarted, loading, errorMsg, rendered, report>>
serverVars == <<serverFile, req, processUp>>
authVars == <<tokenStore, ops, popups, popupsWithToken>>
renderVars == <<renderer, renderPc, renderArgs, tableHeader, tableRows,
                sendEmailDisabled>>
limiterVars == <<clock, lastCall, runs, leaves>>
vars == <<widgetVars, serverVars, authVars, renderVars, limiterVars>>

(***************************************************************************)
(* Bounds                                                                  *)
(***************************************************************************)
MaxLists == 2
MaxCards == 1
MaxDay == 2
MaxRequests == 2
MaxOps == 2
MaxFilterCards == 2
MaxRenderCards == 2
MaxLabels == 2
MaxRuns == 2
MaxTicks == 3
TickMs == 50

(***************************************************************************)
(* Strings: a list name is a sequence of characters, so that toLowerCase   *)
(* is a conversion and not the identity.                                   *)
(***************************************************************************)
NameDone == <<"D", "o", "n", "e">>
NameLowerDone == <<"d", "o", "n", "e">>
NameUpperDone == <<"D", "O", "N", "E">>
NameDoing == <<"D", "o", "i", "n", "g">>
Names == {NameDone, NameLowerDone, NameUpperDone, NameDoing}

LowerChar(c) ==
  CASE c = "D" -> "d"
    [] c = "O" -> "o"
    [] c = "N" -> "n"
    [] c = "E" -> "e"
    [] c = "I" -> "i"
    [] c = "G" -> "g"
    [] OTHER -> c

toLowerCase(s) == [i \in 1..Len(s) |-> LowerChar(s[i])]

(***************************************************************************)
(* Dates: a day number, or NaN for an Invalid Date. Every comparison with  *)
(* NaN is false, as in JavaScript.                                         *)
(***************************************************************************)
NaN == -1
\* the value of a token that is absent: !token holds
NoToken == 0
minInterval == 100
Days == 1..MaxDay

InputValues ==
  {[kind |-> "empty", day |-> 0], [kind |-> "garbage", day |-> 0]}
    \cup {[kind |-> "date", day |-> d] : d \in Days}

\* new Date(value).getTime()
ParseDate(v) == IF v.kind = "date" THEN v.day ELSE NaN

isNaN(x) == x = NaN

\* a > b, a >= b, a <= b on Date objects
DateGt(a, b) == ~isNaN(a) /\ ~isNaN(b) /\ a > b
DateGe(a, b) == ~isNaN(a) /\ ~isNaN(b) /\ a >= b
DateLe(a, b) == ~isNaN(a) /\ ~isNaN(b) /\ a <= b

\* !value on the input's string
Falsy(v) == v.kind = "empty"

(***************************************************************************)
(* Board data as Trello returns it                                         *)
(***************************************************************************)
ListSeqs ==
  UNION {{[i \in 1..n |-> [id |-> i, name |-> f[i]]] : f \in [1..n -> Names]}
           : n \in 0..MaxLists}

CardFields == [idList : 1..MaxLists, dateLastActivity : Days]

CardSeqs ==
  UNION {{[i \in 1..n |-> [id |-> i, idList |-> f[i].idList,
                           dateLastActivity |-> f[i].dateLastActivity]]
            : f \in [1..n -> CardFields]} : n \in 0..MaxCards}

\* GET /1/lists/<id>/cards: the cards of that list
CardsOfList(listId) ==
  {cs \in CardSeqs : \A i \in 1..Len(cs) : cs[i].idList = listId}

NoList == [id |-> 0, name |-> <<>>]

\* Array.prototype.find: the first element the predicate accepts, where
\* accepts[i] is the predicate's value on ls[i]
RECURSIVE FindFrom(_, _, _)
FindFrom(ls, accepts, i) ==
  IF i > Len(ls) THEN NoList
  ELSE IF accepts[i] THEN ls[i]
  ELSE FindFrom(ls, accepts, i + 1)

IsLowerDone(l) == toLowerCase(l.name) = NameLowerDone
IsExactDone(l) == l.name = NameDone
IsLowerDoing(l) == toLowerCase(l.name) = toLowerCase(NameDoing)

\* the lookup falling back to the first list when no list is named "done"
FindDoneOrFirst(ls) ==
  LET found == FindFrom(ls, [i \in 1..Len(ls) |-> IsLowerDone(ls[i])], 1)
  IN IF found = NoList /\ Len(ls) > 0 THEN ls[1] ELSE found

\* lists.find(list => list.name.toLowerCase() === 'done')
FindDoneLower(ls) == FindFrom(ls, [i \in 1..Len(ls) |-> IsLowerDone(ls[i])], 1)
\* lists.find(list => list.name === 'Done')
FindDoneExact(ls) == FindFrom(ls, [i \in 1..Len(ls) |-> IsExactDone(ls[i])], 1)
\* lists.find(l => l.name.toLowerCase() === 'doing')
FindDoing(ls) == FindFrom(ls, [i \in 1..Len(ls) |-> IsLowerDoing(ls[i])], 1)

\* cards.filter(card => card.idList === doneList.id &&
\*                      movedDate >= startDate && movedDate <= endDate)
CompletedFilter(card, doneList, startDate, endDate) ==
  /\ card.idList = doneList.id
  /\ DateGe(card.dateLastActivity, startDate)
  /\ DateLe(card.dateLastActivity, endDate)

\* the filter followed by a reversal of the kept cards
CompletedCardsReversed(cs, doneList, startDate, endDate) ==
  LET Keep(c) == CompletedFilter(c, doneList, startDate, endDate)
      kept == SelectSeq(cs, Keep)
  IN [i \in 1..Len(kept) |-> kept[Len(kept) + 1 - i]]

CompletedCards(cs, doneList, startDate, endDate) ==
  LET Keep(c) == CompletedFilter(c, doneList, startDate, endDate)
  IN SelectSeq(cs, Keep)

\* const allCards = [...doneCards, ...doingCards]
AllCards(dn, dg) == dn \o dg

(***************************************************************************)
(* Messages                                                                *)
(***************************************************************************)
MsgInvalidDates == "Please select valid dates"
MsgStartAfterEnd == "Start date must be before end date"
MsgBothDates == "Please select both start and end dates"
MsgFetchFailed == "Failed to fetch data from server"
MsgNoDone == "No \"Done\" list found on this board"
MsgNoDoneExact == "No \"Done\" list found"
MsgNoDoneDoing == "Could not find \"Done\" or \"Doing\" lists on this board"
MsgAuth == "Failed to authorize with Trello"
MsgTrello == "Trello API error"
MsgRejected == "rejected"

Variants == {"part_001", "public", "client"}
Settled == {"ok", "notok", "badjson"}

(***************************************************************************)
(* The widget                                                              *)
(***************************************************************************)
InitWidget ==
  /\ variant \in Variants
  /\ pc = "idle"
  /\ startInput = [kind |-> "empty", day |-> 0]
  /\ endInput = [kind |-> "empty", day |-> 0]
  /\ listsResponse = "none"
  /\ cardsResponse = "none"
  /\ lists = <<>>
  /\ cards = <<>>
  /\ doneFetch = "none"
  /\ doingFetch = "none"
  /\ doneCards = <<>>
  /\ doingCards = <<>>
  /\ fetchesStarted = 0
  /\ loading = FALSE
  /\ errorMsg = ""
  /\ rendered = FALSE
  /\ report = <<>>

IdleServer ==
  /\ serverFile = "none"
  /\ req = <<>>
  /\ processUp = TRUE

IdleAuth ==
  /\ tokenStore = NoToken
  /\ ops = <<>>
  /\ popups = 0
  /\ popupsWithToken = 0

IdleRender ==
  /\ renderer = "none"
  /\ renderPc = "idle"
  /\ renderArgs = <<>>
  /\ tableHeader = <<>>
  /\ tableRows = <<>>
  /\ sendEmailDisabled = TRUE

IdleLimiter ==
  /\ clock = 0
  /\ lastCall = 0
  /\ runs = <<>>
  /\ leaves = {}

Init == InitWidget /\ IdleServer /\ IdleAuth /\ IdleRender /\ IdleLimiter

\* the catch block showing the error but leaving the loading indicator on
FailKeepsLoading(msg) ==
  /\ errorMsg' = msg
  /\ loading' = loading
  /\ pc' = "done"

\* catch (error) { ... innerHTML = error }  /  showError(); showLoading(false)
Fail(msg) ==
  /\ errorMsg' = msg
  /\ loading' = FALSE
  /\ pc' = "done"

\* displayReport(cards) / populateReportTable(...); showLoading(false)
Display(rows) ==
  /\ report' = rows
  /\ rendered' = TRUE
  /\ loading' = FALSE
  /\ pc' = "done"

----------------------------------------------------------------------------
\* part_001: the click handler up to its first await
Click001(s, e) ==
  /\ variant = "part_001"
  /\ pc = "idle"
  /\ startInput' = s
  /\ endInput' = e
  /\ IF isNaN(ParseDate(s)) \/ isNaN(ParseDate(e))
       THEN Fail(MsgInvalidDates)
     ELSE IF DateGt(ParseDate(s), ParseDate(e))
       THEN Fail(MsgStartAfterEnd)
     ELSE /\ loading' = TRUE
          /\ pc' = "board"
          /\ UNCHANGED errorMsg
  /\ UNCHANGED <<variant, listsResponse, cardsResponse, lists, cards, doneFetch,
                 doingFetch, doneCards, doingCards, fetchesStarted, rendered,
                 report>>
  /\ UNCHANGED <<serverVars, authVars, renderVars, limiterVars>>

\* part_001: t.board('id') resolves and both fetches are started
Board001 ==
  /\ variant = "part_001"
  /\ pc = "board"
  /\ listsResponse' = "pending"
  /\ cardsResponse' = "pending"
  /\ fetchesStarted' = fetchesStarted + 2
  /\ pc' = "fetching"
  /\ UNCHANGED <<variant, startInput, endInput, lists, cards, doneFetch,
                 doingFetch, doneCards, doingCards, loading, errorMsg, rendered,
                 report>>
  /\ UNCHANGED <<serverVars, authVars, renderVars, limiterVars>>

\* the test with the cards response left out
ResponsesOkListsOnly(lr, cr) == lr # "notok"

\* if (!listsResponse.ok || !cardsResponse.ok)
ResponsesOk(lr, cr) == lr # "notok" /\ cr # "notok"

\* part_001: what follows await Promise.all once both fetches are fulfilled
Continue001(lr, cr, ls, cs) ==
  IF ~ResponsesOk(lr, cr) THEN Fail(MsgFetchFailed) /\ UNCHANGED <<rendered, report>>
  ELSE IF lr = "badjson" \/ cr = "badjson"
    THEN Fail(MsgRejected) /\ UNCHANGED <<rendered, report>>
  ELSE IF FindDoneLower(ls) = NoList
    THEN Fail(MsgNoDone) /\ UNCHANGED <<rendered, report>>
  ELSE /\ Display(CompletedCards(cs, FindDoneLower(ls), ParseDate(startInput),
                                 ParseDate(endInput)))
       /\ UNCHANGED errorMsg

\* part_001: the lists fetch settles
ListsSettle001(outcome, data) ==
  /\ variant = "part_001"
  /\ pc = "fetching"
  /\ listsResponse = "pending"
  /\ listsResponse' = outcome
  /\ lists' = IF outcome = "ok" THEN data ELSE lists
  /\ IF outcome = "neterr"
       THEN Fail(MsgRejected) /\ UNCHANGED <<rendered, report>>
     ELSE IF cardsResponse \in Settled
       THEN Continue001(outcome, cardsResponse, lists', cards)
     ELSE UNCHANGED <<pc, loading, errorMsg, rendered, report>>
  /\ UNCHANGED <<variant, startInput, endInput, cardsResponse, cards, doneFetch,
                 doingFetch, doneCards, doingCards, fetchesStarted>>
  /\ UNCHANGED <<serverVars, authVars, renderVars, limiterVars>>

\* part_001: the cards fetch settles
CardsSettle001(outcome, data) ==
  /\ variant = "part_001"
  /\ pc = "fetching"
  /\ cardsResponse = "pending"
  /\ cardsResponse' = outcome
  /\ cards' = IF outcome = "ok" THEN data ELSE cards
  /\ IF outcome = "neterr"
       THEN Fail(MsgRejected) /\ UNCHANGED <<rendered, report>>
     ELSE IF listsResponse \in Settled
       THEN Continue001(listsResponse, outcome, lists, cards')
     ELSE UNCHANGED <<pc, loading, errorMsg, rendered, report>>
  /\ UNCHANGED <<variant, startInput, endInput, listsResponse, lists, doneFetch,
                 doingFetch, doneCards, doingCards, fetchesStarted>>
  /\ UNCHANGED <<serverVars, authVars, renderVars, limiterVars>>

\* part_001: t.board('id') rejects
BoardReject001 ==
  /\ variant = "part_001"
  /\ pc = "board"
  /\ Fail(MsgRejected)
  /\ UNCHANGED <<variant, startInput, endInput, listsResponse, cardsResponse,
                 lists, cards, doneFetch, doingFetch, doneCards, doingCards,
                 fetchesStarted, rendered, report>>
  /\ UNCHANGED <<serverVars, authVars, renderVars, limiterVars>>

Outcomes == {"ok", "notok", "badjson", "neterr"}

Next001 ==
  \/ \E s \in InputValues, e \in InputValues : Click001(s, e)
  \/ Board001
  \/ BoardReject001
  \/ \E o \in Outcomes \ {"ok"} : ListsSettle001(o, <<>>)
  \/ \E d \in ListSeqs : ListsSettle001("ok", d)
  \/ \E o \in Outcomes \ {"ok"} : CardsSettle001(o, <<>>)
  \/ \E d \in CardSeqs : CardsSettle001("ok", d)

----------------------------------------------------------------------------
\* public/js/client.js: the click handler up to await t.board('all')
ClickPublic(s, e) ==
  /\ variant = "public"
  /\ pc = "idle"
  /\ startInput' = s
  /\ endInput' = e
  /\ pc' = "sdkLists"
  /\ UNCHANGED <<variant, listsResponse, cardsResponse, lists, cards, doneFetch,
                 doingFetch, doneCards, doingCards, fetchesStarted, loading,
                 errorMsg, rendered, report>>
  /\ UNCHANGED <<serverVars, authVars, renderVars, limiterVars>>

\* public/js/client.js: t.board('all') resolves; the Done list is looked up
ListsPublic(data) ==
  /\ variant = "public"
  /\ pc = "sdkLists"
  /\ lists' = data
  /\ listsResponse' = "ok"
  /\ IF FindDoneExact(data) = NoList
       THEN Fail(MsgNoDoneExact)
       ELSE pc' = "sdkCards" /\ UNCHANGED <<loading, errorMsg>>
  /\ UNCHANGED <<variant, startInput, endInput, cardsResponse, cards, doneFetch,
                 doingFetch, doneCards, doingCards, fetchesStarted, rendered,
                 report>>
  /\ UNCHANGED <<serverVars, authVars, renderVars, limiterVars>>

\* public/js/client.js: t.cards('all') resolves; filter and display
CardsPublic(data) ==
  /\ variant = "public"
  /\ pc = "sdkCards"
  /\ cards' = data
  /\ cardsResponse' = "ok"
  /\ Display(CompletedCards(data, FindDoneExact(lists), ParseDate(startInput),
                            ParseDate(endInput)))
  /\ UNCHANGED <<variant, startInput, endInput, listsResponse, lists, doneFetch,
                 doingFetch, doneCards, doingCards, fetchesStarted, errorMsg>>
  /\ UNCHANGED <<serverVars, authVars, renderVars, limiterVars>>

\* public/js/client.js: t.board('all') or t.cards('all') rejects
SdkRejectPublic ==
  /\ variant = "public"
  /\ pc \in {"sdkLists", "sdkCards"}
  /\ Fail(MsgRejected)
  /\ UNCHANGED <<variant, startInput, endInput, listsResponse, cardsResponse,
                 lists, cards, doneFetch, doingFetch, doneCards, doingCards,
                 fetchesStarted, rendered, report>>
  /\ UNCHANGED <<serverVars, authVars, renderVars, limiterVars>>

NextPublic ==
  \/ \E s \in InputValues, e \in InputValues : ClickPublic(s, e)
  \/ \E d \in ListSeqs : ListsPublic(d)
  \/ \E d \in CardSeqs : CardsPublic(d)
  \/ SdkRejectPublic

----------------------------------------------------------------------------
\* client.js generateReport: up to await t.board('id')
ClickClient(s, e) ==
  /\ variant = "client"
  /\ pc = "idle"
  /\ startInput' = s
  /\ endInput' = e
  /\ IF Falsy(s) \/ Falsy(e)
       THEN Fail(MsgBothDates)
       ELSE /\ loading' = TRUE
            /\ pc' = "board"
            /\ UNCHANGED errorMsg
  /\ UNCHANGED <<variant, listsResponse, cardsResponse, lists, cards, doneFetch,
                 doingFetch, doneCards, doingCards, fetchesStarted, rendered,
                 report>>
  /\ UNCHANGED <<serverVars, authVars, renderVars, limiterVars>>

\* client.js generateReport: t.board('id') resolves
BoardClient ==
  /\ variant = "client"
  /\ pc = "board"
  /\ pc' = "sdkLists"
  /\ UNCHANGED <<variant, startInput, endInput, listsResponse, cardsResponse,
                 lists, cards, doneFetch, doingFetch, doneCards, doingCards,
                 fetchesStarted, loading, errorMsg, rendered, report>>
  /\ UNCHANGED <<serverVars, authVars, renderVars, limiterVars>>

\* client.js generateReport: t.lists('all') resolves
ListsClient(data) ==
  /\ variant = "client"
  /\ pc = "sdkLists"
  /\ lists' = data
  /\ listsResponse' = "ok"
  /\ pc' = "sdkCards"
  /\ UNCHANGED <<variant, startInput, endInput, cardsResponse, cards, doneFetch,
                 doingFetch, doneCards, doingCards, fetchesStarted, loading,
                 errorMsg, rendered, report>>
  /\ UNCHANGED <<serverVars, authVars, renderVars, limiterVars>>

\* client.js generateReport: t.cards('all') resolves (its value is never read);
\* the Done and Doing lists are looked up
CardsClient ==
  /\ variant = "client"
  /\ pc = "sdkCards"
  /\ cardsResponse' = "ok"
  /\ IF FindDoneLower(lists) = NoList \/ FindDoing(lists) = NoList
       THEN Fail(MsgNoDoneDoing)
       ELSE pc' = "getDone" /\ UNCHANGED <<loading, errorMsg>>
  /\ UNCHANGED <<variant, startInput, endInput, listsResponse, lists, cards,
                 doneFetch, doingFetch, doneCards, doingCards, fetchesStarted,
                 rendered, report>>
  /\ UNCHANGED <<serverVars, authVars, renderVars, limiterVars>>

\* client.js generateReport: t.board, t.lists or t.cards rejects
SdkRejectClient ==
  /\ variant = "client"
  /\ pc \in {"board", "sdkLists", "sdkCards"}
  /\ Fail(MsgRejected)
  /\ UNCHANGED <<variant, startInput, endInput, listsResponse, cardsResponse,
                 lists, cards, doneFetch, doingFetch, doneCards, doingCards,
                 fetchesStarted, rendered, report>>
  /\ UNCHANGED <<serverVars, authVars, renderVars, limiterVars>>

\* client.js trelloGet: throttle and authorize succeed, fetch is called
TrelloGetStart ==
  /\ variant = "client"
  /\ pc \in {"getDone", "getDoing"}
  /\ IF pc = "getDone"
       THEN doneFetch' = "pending" /\ pc' = "awaitDone" /\ UNCHANGED doingFetch
       ELSE doingFetch' = "pending" /\ pc' = "awaitDoing" /\ UNCHANGED doneFetch
  /\ fetchesStarted' = fetchesStarted + 1
  /\ UNCHANGED <<variant, startInput, endInput, listsResponse, cardsResponse,
                 lists, cards, doneCards, doingCards, loading, errorMsg, rendered,
                 report>>
  /\ UNCHANGED <<serverVars, authVars, renderVars, limiterVars>>

\* client.js trelloGet: authorize throws, no fetch is made
TrelloGetAuthFail ==
  /\ variant = "client"
  /\ pc \in {"getDone", "getDoing"}
  /\ Fail(MsgAuth)
  /\ UNCHANGED <<variant, startInput, endInput, listsResponse, cardsResponse,
                 lists, cards, doneFetch, doingFetch, doneCards, doingCards,
                 fetchesStarted, rendered, report>>
  /\ UNCHANGED <<serverVars, authVars, renderVars, limiterVars>>

\* if (!response.ok) throw ...; return await response.json()
TrelloGetThrows(outcome) == outcome # "ok"

\* client.js: the first trelloGet settles
DoneSettle(outcome, data) ==
  /\ variant = "client"
  /\ pc = "awaitDone"
  /\ doneFetch' = outcome
  /\ IF TrelloGetThrows(outcome)
       THEN /\ Fail(IF outcome = "notok" THEN MsgTrello ELSE MsgRejected)
            /\ UNCHANGED doneCards
       ELSE /\ doneCards' = data
            /\ pc' = "getDoing"
            /\ UNCHANGED <<loading, errorMsg>>
  /\ UNCHANGED <<variant, startInput, endInput, listsResponse, cardsResponse,
                 lists, cards, doingFetch, doingCards, fetchesStarted, rendered,
                 report>>
  /\ UNCHANGED <<serverVars, authVars, renderVars, limiterVars>>

\* client.js: the second trelloGet settles; populateReportTable
DoingSettle(outcome, data) ==
  /\ variant = "client"
  /\ pc = "awaitDoing"
  /\ doingFetch' = outcome
  /\ IF TrelloGetThrows(outcome)
       THEN /\ Fail(IF outcome = "notok" THEN MsgTrello ELSE MsgRejected)
            /\ UNCHANGED <<doingCards, rendered, report>>
       ELSE /\ doingCards' = data
            /\ Display(AllCards(doneCards, data))
            /\ UNCHANGED errorMsg
  /\ UNCHANGED <<variant, startInput, endInput, listsResponse, cardsResponse,
                 lists, cards, doneFetch, doneCards, fetchesStarted>>
  /\ UNCHANGED <<serverVars, authVars, renderVars, limiterVars>>

NextClient ==
  \/ \E s \in InputValues, e \in InputValues : ClickClient(s, e)
  \/ BoardClient
  \/ \E d \in ListSeqs : ListsClient(d)
  \/ CardsClient
  \/ SdkRejectClient
  \/ TrelloGetStart
  \/ TrelloGetAuthFail
  \/ \E o \in Outcomes \ {"ok"} : DoneSettle(o, <<>>)
  \/ \E d \in CardsOfList(FindDoneLower(lists).id) : DoneSettle("ok", d)
  \/ \E o \in Outcomes \ {"ok"} : DoingSettle(o, <<>>)
  \/ \E d \in CardsOfList(FindDoing(lists).id) : DoingSettle("ok", d)

NextWidget == Next001 \/ NextPublic \/ NextClient

Next == NextWidget

Spec == Init /\ [][Next]_vars

(***************************************************************************)
(* The proxy server                                                        *)
(***************************************************************************)
ServerFiles == {"server.js", "part_000"}
Paths == {"/api/lists", "/api/cards", "/api/board-data", "/js/client.js", "/other"}
BoardIds == {"b1", "b2"}
StaticFiles == {"/js/client.js"}
UpstreamResults == {"ok_json", "non2xx_json", "non2xx_text", "neterr"}
ProxyHandlers == {"lists", "cards", "board-data"}

\* the app.get(...) calls of each file, in the order they are made
Routes(file) ==
  IF file = "server.js"
    THEN <<[pattern |-> "/api/lists", handler |-> "lists"],
           [pattern |-> "/api/cards", handler |-> "cards"],
           [pattern |-> "*", handler |-> "index"]>>
    ELSE <<[pattern |-> "*", handler |-> "index"],
           [pattern |-> "/api/board-data", handler |-> "board-data"],
           [pattern |-> "/api/cards", handler |-> "cards"]>>

Matches(pattern, path) == pattern = "*" \/ pattern = path

\* express: the first registered route whose pattern matches handles the request
RECURSIVE FirstMatch(_, _, _)
FirstMatch(routes, path, i) ==
  IF i > Len(routes) THEN "none"
  ELSE IF Matches(routes[i].pattern, path) THEN routes[i].handler
  ELSE FirstMatch(routes, path, i + 1)

\* express.static comes first, then the routes
Dispatch(file, path) ==
  IF path \in StaticFiles THEN "static" ELSE FirstMatch(Routes(file), path, 1)

NoBody == [kind |-> "none", resource |-> "", board |-> "", upstream |-> ""]
ErrorBody(h) == [kind |-> "error", resource |-> h, board |-> "", upstream |-> ""]
\* the JSON Trello returned for boards/<boardId>/<resource>
TrelloBody(h, boardId, up) ==
  [kind |-> "trello", resource |-> h, board |-> boardId, upstream |-> up]
FileBody(name) == [kind |-> "file", resource |-> name, board |-> "", upstream |-> ""]

\* the handler with the response.ok test left out
HandleNoOkCheck(h, boardId, up) ==
  IF up \in {"neterr", "non2xx_text"}
    THEN [status |-> 500, body |-> ErrorBody(h), crashed |-> FALSE]
    ELSE [status |-> 200, body |-> TrelloBody(h, boardId, up), crashed |-> FALSE]

\* the handler with no try/catch: a failure is an unhandled rejection
HandleNoCatch(h, boardId, up) ==
  IF up = "ok_json"
    THEN [status |-> 200, body |-> TrelloBody(h, boardId, up), crashed |-> FALSE]
    ELSE [status |-> 0, body |-> NoBody, crashed |-> TRUE]

\* src/server.js: try { fetch; if (!response.ok) throw; res.json(await
\* response.json()) } catch { res.status(500).json({error}) }
HandleServerJs(h, boardId, up) ==
  IF up = "ok_json"
    THEN [status |-> 200, body |-> TrelloBody(h, boardId, up), crashed |-> FALSE]
    ELSE [status |-> 500, body |-> ErrorBody(h), crashed |-> FALSE]

\* part_000: try { fetch; res.json(await response.json()) } catch { 500 }
HandlePart000(h, boardId, up) ==
  IF up \in {"neterr", "non2xx_text"}
    THEN [status |-> 500, body |-> ErrorBody(h), crashed |-> FALSE]
    ELSE [status |-> 200, body |-> TrelloBody(h, boardId, up), crashed |-> FALSE]

Handle(file, h, boardId, up) ==
  IF file = "server.js" THEN HandleServerJs(h, boardId, up)
  ELSE HandlePart000(h, boardId, up)

NewRequest ==
  [state |-> "new", path |-> "", boardId |-> "", handler |-> "none",
   upstreamCalls |-> 0, upstream |-> "", status |-> 0, body |-> NoBody,
   afterFailure |-> FALSE]

InitServer ==
  /\ serverFile \in ServerFiles
  /\ req = [r \in 1..MaxRequests |-> NewRequest]
  /\ processUp = TRUE

IdleWidget ==
  /\ variant = "none"
  /\ pc = "idle"
  /\ startInput = [kind |-> "empty", day |-> 0]
  /\ endInput = [kind |-> "empty", day |-> 0]
  /\ listsResponse = "none"
  /\ cardsResponse = "none"
  /\ lists = <<>>
  /\ cards = <<>>
  /\ doneFetch = "none"
  /\ doingFetch = "none"
  /\ doneCards = <<>>
  /\ doingCards = <<>>
  /\ fetchesStarted = 0
  /\ loading = FALSE
  /\ errorMsg = ""
  /\ rendered = FALSE
  /\ report = <<>>

\* a request arrives and is dispatched; a proxy handler calls fetch once, the
\* static middleware and the catch-all answer at once
Receive(r, path, boardId) ==
  /\ processUp
  /\ req[r].state = "new"
  /\ LET h == Dispatch(serverFile, path)
         failed == \E q \in 1..MaxRequests : req[q].status = 500
         base == [req[r] EXCEPT !.path = path, !.boardId = boardId,
                                !.handler = h, !.afterFailure = failed]
     IN req' = [req EXCEPT ![r] =
          IF h \in ProxyHandlers
            THEN [base EXCEPT !.state = "upstream", !.upstreamCalls = 1]
            ELSE [base EXCEPT !.state = "responded", !.status = 200,
                              !.body = FileBody(IF h = "static" THEN path
                                                ELSE "index.html")]]
  /\ UNCHANGED <<serverFile, processUp>>
  /\ UNCHANGED <<widgetVars, authVars, renderVars, limiterVars>>

\* the upstream call of request r settles and the handler answers
UpstreamSettles(r, up) ==
  /\ processUp
  /\ req[r].state = "upstream"
  /\ LET out == Handle(serverFile, req[r].handler, req[r].boardId, up)
     IN /\ req' = [req EXCEPT ![r] =
               [@ EXCEPT !.state = IF out.crashed THEN "lost" ELSE "responded",
                         !.upstream = up, !.status = out.status,
                         !.body = out.body]]
        /\ processUp' = ~out.crashed
  /\ UNCHANGED serverFile
  /\ UNCHANGED <<widgetVars, authVars, renderVars, limiterVars>>

NextServer ==
  \/ \E r \in 1..MaxRequests, p \in Paths, b \in BoardIds : Receive(r, p, b)
  \/ \E r \in 1..MaxRequests, up \in UpstreamResults : UpstreamSettles(r, up)

ServerInit ==
  InitServer /\ IdleWidget /\ IdleAuth /\ IdleRender /\ IdleLimiter

SpecServer == ServerInit /\ [][NextServer]_vars

(***************************************************************************)
(* The token flow of client.js                                             *)
(***************************************************************************)
OpKinds == {"trelloGet", "testConnection"}

NewOp == [kind |-> "none", pc |-> "idle", token |-> NoToken]

InitAuth ==
  /\ tokenStore = NoToken
  /\ ops = [o \in 1..MaxOps |-> NewOp]
  /\ popups = 0
  /\ popupsWithToken = 0

\* the token the popup opened by operation o yields
PopupToken(o) == o

\* trelloGet (after throttle) calls authorize(); testConnection reads the store
StartOp(o, kind) ==
  /\ ops[o].pc = "idle"
  /\ ops' = [ops EXCEPT ![o] = [@ EXCEPT !.kind = kind,
               !.pc = IF kind = "testConnection" THEN "tcGet" ELSE "get"]]
  /\ UNCHANGED <<tokenStore, popups, popupsWithToken>>
  /\ UNCHANGED <<widgetVars, serverVars, renderVars, limiterVars>>

\* testConnection: let token = await t.get(...); if (!token) authorize()
TestConnectionGet(o) ==
  /\ ops[o].pc = "tcGet"
  /\ ops' = [ops EXCEPT ![o] = [@ EXCEPT !.token = tokenStore,
               !.pc = IF tokenStore = NoToken THEN "get" ELSE "fetch"]]
  /\ UNCHANGED <<tokenStore, popups, popupsWithToken>>
  /\ UNCHANGED <<widgetVars, serverVars, renderVars, limiterVars>>

\* authorize: let token = await t.get(...); if (!token) ... else return token
AuthorizeGet(o) ==
  /\ ops[o].pc = "get"
  /\ ops' = [ops EXCEPT ![o] = [@ EXCEPT !.token = tokenStore,
               !.pc = IF tokenStore = NoToken THEN "signUrl" ELSE "fetch"]]
  /\ UNCHANGED <<tokenStore, popups, popupsWithToken>>
  /\ UNCHANGED <<widgetVars, serverVars, renderVars, limiterVars>>

\* authorize: await t.signUrl(...) resolves and t.authorize opens the popup
AuthorizePopup(o) ==
  /\ ops[o].pc = "signUrl"
  /\ ops' = [ops EXCEPT ![o] = [@ EXCEPT !.pc = "popup"]]
  /\ popups' = popups + 1
  /\ popupsWithToken' = popupsWithToken + (IF tokenStore = NoToken THEN 0 ELSE 1)
  /\ UNCHANGED tokenStore
  /\ UNCHANGED <<widgetVars, serverVars, renderVars, limiterVars>>

\* auth-success.html in the popup: t.set('member', 'private', 'token', signed.token)
AuthSuccessStore(o) ==
  /\ ops[o].pc = "popup"
  /\ tokenStore' = PopupToken(o)
  /\ ops' = [ops EXCEPT ![o] = [@ EXCEPT !.pc = "popupStored"]]
  /\ UNCHANGED <<popups, popupsWithToken>>
  /\ UNCHANGED <<widgetVars, serverVars, renderVars, limiterVars>>

\* authorize: t.authorize resolves with the token
PopupResolves(o) ==
  /\ ops[o].pc \in {"popup", "popupStored"}
  /\ ops' = [ops EXCEPT ![o] = [@ EXCEPT !.token = PopupToken(o), !.pc = "set"]]
  /\ UNCHANGED <<tokenStore, popups, popupsWithToken>>
  /\ UNCHANGED <<widgetVars, serverVars, renderVars, limiterVars>>

\* authorize: t.authorize rejects (popup closed); 'Failed to authorize with Trello'
PopupRejects(o) ==
  /\ ops[o].pc = "popup"
  /\ ops' = [ops EXCEPT ![o] = [@ EXCEPT !.pc = "failed"]]
  /\ UNCHANGED <<tokenStore, popups, popupsWithToken>>
  /\ UNCHANGED <<widgetVars, serverVars, renderVars, limiterVars>>

\* authorize: await t.set('member', 'private', 'token', token); return token
AuthorizeSet(o) ==
  /\ ops[o].pc = "set"
  /\ tokenStore' = ops[o].token
  /\ ops' = [ops EXCEPT ![o] = [@ EXCEPT !.pc = "fetch"]]
  /\ UNCHANGED <<popups, popupsWithToken>>
  /\ UNCHANGED <<widgetVars, serverVars, renderVars, limiterVars>>

\* the operation calls Trello with its token and ends
OpFetch(o) ==
  /\ ops[o].pc = "fetch"
  /\ ops' = [ops EXCEPT ![o] = [@ EXCEPT !.pc = "done"]]
  /\ UNCHANGED <<tokenStore, popups, popupsWithToken>>
  /\ UNCHANGED <<widgetVars, serverVars, renderVars, limiterVars>>

NextAuth ==
  \/ \E o \in 1..MaxOps, k \in OpKinds : StartOp(o, k)
  \/ \E o \in 1..MaxOps : TestConnectionGet(o)
  \/ \E o \in 1..MaxOps : AuthorizeGet(o)
  \/ \E o \in 1..MaxOps : AuthorizePopup(o)
  \/ \E o \in 1..MaxOps : AuthSuccessStore(o)
  \/ \E o \in 1..MaxOps : PopupResolves(o)
  \/ \E o \in 1..MaxOps : PopupRejects(o)
  \/ \E o \in 1..MaxOps : AuthorizeSet(o)
  \/ \E o \in 1..MaxOps : OpFetch(o)

AuthInit ==
  InitAuth /\ IdleWidget /\ IdleServer /\ IdleRender /\ IdleLimiter

SpecAuth == AuthInit /\ [][NextAuth]_vars

(***************************************************************************)
(* The filter on longer card arrays: the handlers of part_001 and          *)
(* public/js/client.js from the point where one await is left before the   *)
(* filter runs.                                                            *)
(***************************************************************************)
\* boards of two lists
FilterBoards == {ls \in ListSeqs : Len(ls) = 2}

FilterCardFields == [idList : {1, 2}, dateLastActivity : Days]

FilterCardSeqs ==
  UNION {{[i \in 1..n |-> [id |-> i, idList |-> f[i].idList,
                           dateLastActivity |-> f[i].dateLastActivity]]
            : f \in [1..n -> FilterCardFields]} : n \in 0..MaxFilterCards}

\* part_001 with the cards fetched and the lists fetch pending, or
\* public/js/client.js with the Done list found and t.cards('all') pending
InitFilter ==
  /\ variant \in {"part_001", "public"}
  /\ startInput \in InputValues
  /\ endInput \in InputValues
  /\ doneFetch = "none"
  /\ doingFetch = "none"
  /\ doneCards = <<>>
  /\ doingCards = <<>>
  /\ errorMsg = ""
  /\ rendered = FALSE
  /\ report = <<>>
  /\ IF variant = "part_001"
       THEN /\ ~isNaN(ParseDate(startInput))
            /\ ~isNaN(ParseDate(endInput))
            /\ ~DateGt(ParseDate(startInput), ParseDate(endInput))
            /\ pc = "fetching"
            /\ listsResponse = "pending"
            /\ lists = <<>>
            /\ cardsResponse = "ok"
            /\ cards \in FilterCardSeqs
            /\ fetchesStarted = 2
            /\ loading = TRUE
       ELSE /\ pc = "sdkCards"
            /\ listsResponse = "ok"
            /\ lists \in {ls \in FilterBoards : FindDoneExact(ls) # NoList}
            /\ cardsResponse = "none"
            /\ cards = <<>>
            /\ fetchesStarted = 0
            /\ loading = FALSE

FilterInit ==
  InitFilter /\ IdleServer /\ IdleAuth /\ IdleRender /\ IdleLimiter

NextFilter ==
  \/ \E o \in Outcomes \ {"ok"} : ListsSettle001(o, <<>>)
  \/ \E d \in FilterBoards : ListsSettle001("ok", d)
  \/ \E d \in FilterCardSeqs : CardsPublic(d)
  \/ SdkRejectPublic

SpecFilter == FilterInit /\ [][NextFilter]_vars

(***************************************************************************)
(* The report table: displayReport (part_001 and public/js/client.js, the  *)
(* same text in both files) and populateReportTable (client.js).           *)
(***************************************************************************)
Renderers == {"displayReport", "populateReportTable"}

LabelNames == {"", "bug"}

LabelSeqs == UNION {[1..n -> LabelNames] : n \in 0..MaxLabels}

\* cards as the renderers read them: name (the card's position stands for
\* it) and the names of its labels
RenderCardSeqs ==
  UNION {{[i \in 1..n |-> [name |-> i, labels |-> ls[i]]]
            : ls \in [1..n -> LabelSeqs]} : n \in 0..MaxRenderCards}

\* Array.prototype.join(', ')
RECURSIVE JoinFrom(_, _)
JoinFrom(names, i) ==
  IF i > Len(names) THEN ""
  ELSE IF i = Len(names) THEN names[i]
  ELSE names[i] \o ", " \o JoinFrom(names, i + 1)

join(names) == JoinFrom(names, 1)

\* card.labels.map(label => label.name).join(', ') || 'No Labels'
LabelsCell(card) ==
  IF join(card.labels) = "" THEN "No Labels" ELSE join(card.labels)

\* card.labels.map(label => label.name).join(', ')
LabelsCellClient(card) == join(card.labels)

\* a table left by an earlier render
StaleRows == {<<>>, <<[name |-> 1, labels |-> "No Labels"]>>}

InitRender ==
  /\ renderer \in Renderers
  /\ renderPc = "called"
  /\ \E cs \in RenderCardSeqs :
       IF renderer = "displayReport"
         THEN renderArgs = [cards |-> cs]
         ELSE \E k \in 0..Len(cs) :
                renderArgs = [doneCards |-> SubSeq(cs, 1, k),
                              doingCards |-> SubSeq(cs, k + 1, Len(cs))]
  /\ tableRows \in StaleRows
  /\ tableHeader = IF renderer = "displayReport" /\ tableRows # <<>>
                     THEN <<Len(tableRows)>> ELSE <<>>
  /\ sendEmailDisabled \in BOOLEAN

displayReport ==
  /\ renderer = "displayReport"
  /\ renderPc = "called"
  /\ LET input == renderArgs.cards IN
       /\ tableHeader' = <<Len(input)>>
       /\ tableRows' = [i \in 1..Len(input) |->
                          [name |-> input[i].name,
                           labels |-> LabelsCell(input[i])]]
  /\ renderPc' = "rendered"
  /\ UNCHANGED <<renderer, renderArgs, sendEmailDisabled>>
  /\ UNCHANGED <<widgetVars, serverVars, authVars, limiterVars>>

populateReportTable ==
  /\ renderer = "populateReportTable"
  /\ renderPc = "called"
  /\ LET allCards == renderArgs.doneCards \o renderArgs.doingCards IN
       /\ tableRows' = [i \in 1..Len(allCards) |->
                          [name |-> allCards[i].name,
                           labels |-> LabelsCellClient(allCards[i]),
                           status |-> IF i <= Len(renderArgs.doneCards)
                                        THEN "Done" ELSE "Doing"]]
       /\ sendEmailDisabled' = ~(Len(allCards) > 0)
  /\ renderPc' = "rendered"
  /\ UNCHANGED <<renderer, renderArgs, tableHeader>>
  /\ UNCHANGED <<widgetVars, serverVars, authVars, limiterVars>>

NextRender == displayReport \/ populateReportTable

RenderInit ==
  InitRender /\ IdleWidget /\ IdleServer /\ IdleAuth /\ IdleLimiter

SpecRender == RenderInit /\ [][NextRender]_vars

(***************************************************************************)
(* The rate limiter of client.js.  Each run of generateReport makes two    *)
(* trelloGet calls one after the other; the button stays enabled during a  *)
(* run, so runs overlap.  Every trelloGet starts with throttle().          *)
(***************************************************************************)
Runs == 1..MaxRuns

\* Date.now() when the page is used: far from lastCall's initial 0
Epoch == minInterval

MaxClock == Epoch + MaxTicks * TickMs

\* a run: "idle" before the click, "throttle" at the call of throttle(),
\* "timer" while awaiting the setTimeout, "request" once throttle() has
\* returned, "finished" after the second call or a throw
NewRun == [pc |-> "idle", call |-> 0, wakeAt |-> 0]

InitLimiter ==
  /\ clock = Epoch
  /\ lastCall = 0
  /\ runs = [r \in Runs |-> NewRun]
  /\ leaves = {}

\* time passes
Tick ==
  /\ clock < MaxClock
  /\ clock' = clock + TickMs
  /\ UNCHANGED <<lastCall, runs, leaves>>
  /\ UNCHANGED <<widgetVars, serverVars, authVars, renderVars>>

\* the click, up to the first trelloGet
ClickRun(r) ==
  /\ runs[r].pc = "idle"
  /\ runs' = [runs EXCEPT ![r] = [pc |-> "throttle", call |-> 1, wakeAt |-> 0]]
  /\ UNCHANGED <<clock, lastCall, leaves>>
  /\ UNCHANGED <<widgetVars, serverVars, authVars, renderVars>>

\* throttle() up to its await, or to its end when there is no wait
Throttle(r) ==
  /\ runs[r].pc = "throttle"
  /\ LET now == clock
         timeSinceLastCall == now - lastCall
     IN IF timeSinceLastCall < minInterval
          THEN /\ runs' = [runs EXCEPT ![r].pc = "timer",
                                       ![r].wakeAt =
                                          now + (minInterval - timeSinceLastCall)]
               /\ UNCHANGED <<lastCall, leaves>>
          ELSE /\ lastCall' = clock
               /\ runs' = [runs EXCEPT ![r].pc = "request"]
               /\ leaves' = leaves \cup
                              {[run |-> r, call |-> runs[r].call, at |-> clock]}
  /\ UNCHANGED clock
  /\ UNCHANGED <<widgetVars, serverVars, authVars, renderVars>>

\* the timer fires (not before its delay has passed) and throttle() ends
TimerFires(r) ==
  /\ runs[r].pc = "timer"
  /\ clock >= runs[r].wakeAt
  /\ lastCall' = clock
  /\ runs' = [runs EXCEPT ![r].pc = "request"]
  /\ leaves' = leaves \cup {[run |-> r, call |-> runs[r].call, at |-> clock]}
  /\ UNCHANGED clock
  /\ UNCHANGED <<widgetVars, serverVars, authVars, renderVars>>

\* the rest of trelloGet: it returns (the next trelloGet follows, or the run
\* ends after the second) or throws (the run ends)
TrelloGetEnds(r, ok) ==
  /\ runs[r].pc = "request"
  /\ runs' = IF ok /\ runs[r].call = 1
               THEN [runs EXCEPT ![r].pc = "throttle", ![r].call = 2]
               ELSE [runs EXCEPT ![r].pc = "finished"]
  /\ UNCHANGED <<clock, lastCall, leaves>>
  /\ UNCHANGED <<widgetVars, serverVars, authVars, renderVars>>

NextLimiter ==
  \/ Tick
  \/ \E r \in Runs : ClickRun(r)
  \/ \E r \in Runs : Throttle(r)
  \/ \E r \in Runs : TimerFires(r)
  \/ \E r \in Runs, ok \in BOOLEAN : TrelloGetEnds(r, ok)

LimiterInit ==
  InitLimiter /\ IdleWidget /\ IdleServer /\ IdleAuth /\ IdleRender

SpecLimiter == LimiterInit /\ [][NextLimiter]_vars

(***************************************************************************)
(* What the specification says, stated independently of the handlers       *)
(***************************************************************************)
\* every spelling of "done" in upper and lower case letters
DoneSpellings ==
  {n \in [1..4 -> {"D", "d", "O", "o", "N", "n", "E", "e"}] :
     \A i \in 1..4 : n[i] \in {NameLowerDone[i], NameUpperDone[i]}}

NamedDone(l) == l.name \in DoneSpellings
HasDone(ls) == \E i \in 1..Len(ls) : NamedDone(ls[i])
\* the Done list of a board: the first list named "done" in any letter case
TheDoneList(ls) ==
  ls[CHOOSE i \in 1..Len(ls) :
       NamedDone(ls[i]) /\ \A j \in 1..(i - 1) : ~NamedDone(ls[j])]

ListsKnown == listsResponse = "ok"
\* every card the run has obtained
FetchedCards == cards \o doneCards \o doingCards
InReport(c) == \E i \in 1..Len(report) : report[i] = c

Malformed(v) == v.kind # "date"
StartAfterEnd ==
  /\ startInput.kind = "date"
  /\ endInput.kind = "date"
  /\ startInput.day > endInput.day
InRange(c) ==
  /\ ~Malformed(startInput)
  /\ ~Malformed(endInput)
  /\ startInput.day <= c.dateLastActivity
  /\ c.dateLastActivity <= endInput.day

ValidationMsgs == {MsgInvalidDates, MsgStartAfterEnd, MsgBothDates}
NotFoundMsgs == {MsgNoDone, MsgNoDoneExact, MsgNoDoneDoing}
AnyNotOk == "notok" \in {listsResponse, cardsResponse, doneFetch, doingFetch}
AnyPending == "pending" \in {listsResponse, cardsResponse, doneFetch, doingFetch}

----------------------------------------------------------------------------
\* C1: once a report is rendered for a board with a Done list, a fetched card
\* is in the report if and only if its idList is the Done list's id and
\* startDate <= dateLastActivity <= endDate (both ends included).
C1_FilterIff ==
  (rendered /\ HasDone(lists)) =>
    \A i \in 1..Len(FetchedCards) :
      InReport(FetchedCards[i]) <=>
        (FetchedCards[i].idList = TheDoneList(lists).id /\ InRange(FetchedCards[i]))

\* C2: a run whose start date is after its end date ends at once with an error
\* message and never starts a request for lists or cards.
C2_RejectBeforeNetwork ==
  (StartAfterEnd /\ pc # "idle") =>
    /\ pc = "done"
    /\ errorMsg # ""
    /\ fetchesStarted = 0
    /\ listsResponse = "none"
    /\ cardsResponse = "none"

\* C3: on a board with a list named "done" in any letter case the run never
\* reports a missing list, and a rendered report holds only cards of that list.
C3_DoneAnyCase ==
  (ListsKnown /\ HasDone(lists)) =>
    /\ errorMsg \notin NotFoundMsgs
    /\ rendered => \A i \in 1..Len(report) : report[i].idList = TheDoneList(lists).id

\* C4: when no list of the board is named "done" (in any letter case) nothing
\* is rendered by the run, and the run ends with an error message shown.
C4_NoDoneIsError ==
  (ListsKnown /\ ~HasDone(lists)) =>
    /\ ~rendered
    /\ pc = "done" => errorMsg # ""

C4_Witness ==
  /\ pc = "done"
  /\ ListsKnown
  /\ Len(lists) > 0
  /\ ~HasDone(lists)
  /\ errorMsg \in NotFoundMsgs
  /\ ~rendered

\* C9 as claimed: a run starts no fetch or both fetches together (never exactly
\* one), renders only after every fetch has completed ok, and a response that
\* is not ok ends the run with an error and nothing rendered.
C9_BothStartedTogether ==
  /\ fetchesStarted \in {0, 2}
  /\ rendered => (~AnyPending /\ ~AnyNotOk)
  /\ AnyNotOk => (~rendered /\ (pc = "done" => errorMsg # ""))

\* C9 as amended: a run starts at most two fetches; the proxy-backed handler
\* starts both together, generateReport starts the second only after the first
\* has completed ok; rendering begins only after every started fetch has
\* completed ok, and a response that is not ok ends the run with an error and
\* nothing rendered.
C9_FetchesBeforeRender ==
  /\ fetchesStarted \in 0..2
  /\ variant = "part_001" => fetchesStarted \in {0, 2}
  /\ variant = "part_001" => (listsResponse = "none" <=> cardsResponse = "none")
  /\ variant = "client" => (doingFetch # "none" => doneFetch = "ok")
  /\ rendered => (~AnyPending /\ ~AnyNotOk)
  /\ rendered =>
       \/ variant = "public"
       \/ variant = "part_001" /\ listsResponse = "ok" /\ cardsResponse = "ok"
       \/ variant = "client" /\ doneFetch = "ok" /\ doingFetch = "ok"
  /\ AnyNotOk => (~rendered /\ (pc = "done" => errorMsg # ""))

C9_Witness ==
  /\ rendered
  /\ fetchesStarted = 2
  /\ variant = "client"
  /\ doneFetch = "ok"
  /\ doingFetch = "ok"

\* C10: a run with a missing or malformed start or end date ends at once with a
\* validation error and never renders a report.
C10_MalformedRejected ==
  ((Malformed(startInput) \/ Malformed(endInput)) /\ pc # "idle") =>
    /\ pc = "done"
    /\ errorMsg \in ValidationMsgs
    /\ ~rendered

OtherFailureMsgs ==
  ValidationMsgs \cup {MsgFetchFailed, MsgRejected, MsgAuth, MsgTrello}

\* C11: a run on a board with a Done list (any letter case) and no cards, which
\* is not stopped by a validation, authorization or fetch failure, ends with
\* the report rendered with no rows and no error message.
C11_EmptyCardsEmptyReport ==
  (/\ pc = "done"
   /\ ListsKnown
   /\ HasDone(lists)
   /\ FetchedCards = <<>>
   /\ errorMsg \notin OtherFailureMsgs) =>
    /\ rendered
    /\ report = <<>>
    /\ errorMsg = ""

\* C12: the rendered cards are a subsequence of the cards array (same relative
\* order, no card more often than in the input), and the cards array, once
\* obtained, is never changed.
RECURSIVE SubseqFrom(_, _, _, _)
SubseqFrom(sub, full, i, j) ==
  IF i > Len(sub) THEN TRUE
  ELSE IF j > Len(full) THEN FALSE
  ELSE IF sub[i] = full[j] THEN SubseqFrom(sub, full, i + 1, j + 1)
  ELSE SubseqFrom(sub, full, i, j + 1)

IsSubsequence(sub, full) == SubseqFrom(sub, full, 1, 1)

C12_StableFilter ==
  /\ [](rendered => IsSubsequence(report, cards))
  /\ [][cardsResponse = "ok" => cards' = cards]_vars

C12_Witness ==
  /\ rendered
  /\ Len(cards) = 2
  /\ Len(report) = 2
  /\ report[1] = cards[1]
  /\ report[2] = cards[2]

\* C13: the rendered table has one row per card of the input, in input order,
\* the heading shows the number of cards, and the Labels cell of each row is
\* the card's label names joined by ", ", or "No Labels" when the card has no
\* labels or the joined names are empty.
RenderInput ==
  IF renderer = "displayReport" THEN renderArgs.cards
  ELSE renderArgs.doneCards \o renderArgs.doingCards

ExpectedLabels(card) ==
  IF card.labels = <<>> \/ join(card.labels) = ""
    THEN "No Labels" ELSE join(card.labels)

C13_TableMatchesCards ==
  renderPc = "rendered" =>
    /\ Len(tableRows) = Len(RenderInput)
    /\ \A i \in 1..Len(RenderInput) :
         /\ tableRows[i].name = RenderInput[i].name
         /\ tableRows[i].labels = ExpectedLabels(RenderInput[i])
    /\ tableHeader = <<Len(RenderInput)>>

\* C14: any two calls leave throttle() at least minInterval apart.
C14_LeavesSpacedApart ==
  \A a, b \in leaves :
    a # b => (a.at - b.at >= minInterval \/ b.at - a.at >= minInterval)

\* C15: a run that has ended leaves the loading indicator off, and shows either
\* the report or an error message in its place.
C15_LoadingOffAtEnd ==
  pc = "done" => (~loading /\ (rendered \/ errorMsg # ""))

C15_Witness ==
  /\ pc = "done"
  /\ variant \in {"part_001", "client"}
  /\ fetchesStarted > 0
  /\ errorMsg \in {MsgFetchFailed, MsgTrello}
  /\ ~loading

----------------------------------------------------------------------------
ApiPaths == {"/api/lists", "/api/cards"}
UpstreamFailures == {"non2xx_json", "non2xx_text", "neterr"}
Requests == 1..MaxRequests

\* C5: a request to /api/lists or /api/cards whose upstream call returned a
\* non-2xx status or failed is answered 500 with a JSON error body after
\* exactly one upstream call; no request makes more than one upstream call.
C5_UpstreamFailureIs500 ==
  \A r \in Requests :
    /\ req[r].upstreamCalls <= 1
    /\ (req[r].state = "responded" /\ req[r].path \in ApiPaths
          /\ req[r].upstream \in UpstreamFailures) =>
         /\ req[r].status = 500
         /\ req[r].body.kind = "error"
         /\ req[r].upstreamCalls = 1

C5_Witness ==
  \E r \in Requests :
    /\ req[r].state = "responded"
    /\ req[r].path = "/api/cards"
    /\ req[r].upstream = "non2xx_json"
    /\ req[r].status = 500

\* C6: a request to /api/lists or /api/cards is handled by a proxy handler, and
\* the index.html fallback answers only requests that match no API route the
\* server registers.
C6_ApiNeverFallsBack ==
  \A r \in Requests :
    req[r].state # "new" =>
      /\ req[r].path \in ApiPaths => req[r].handler \in ProxyHandlers
      /\ req[r].handler = "index" =>
           \A i \in 1..Len(Routes(serverFile)) :
             Routes(serverFile)[i].pattern # req[r].path

\* C7: the process survives every request, a request waiting for its upstream
\* call can always be answered, and the answer to a request is a function of
\* its own path, boardId and upstream result: two requests that agree on these
\* get the same status and body, and a passed-through body is the one Trello
\* returned for the request's own board and resource.
C7_IndependentRequests ==
  /\ processUp
  /\ \A r \in Requests :
       /\ req[r].state = "upstream" =>
            \A up \in UpstreamResults : ENABLED UpstreamSettles(r, up)
       /\ (req[r].state = "responded" /\ req[r].body.kind = "trello") =>
            /\ req[r].body.board = req[r].boardId
            /\ req[r].body.resource = req[r].handler
            /\ req[r].body.upstream = req[r].upstream
  /\ \A r1 \in Requests, r2 \in Requests :
       (/\ req[r1].state = "responded" /\ req[r2].state = "responded"
        /\ req[r1].path = req[r2].path
        /\ req[r1].boardId = req[r2].boardId
        /\ req[r1].upstream = req[r2].upstream) =>
         (req[r1].status = req[r2].status /\ req[r1].body = req[r2].body)

C7_Witness ==
  \E r1 \in Requests, r2 \in Requests :
    /\ req[r1].state = "responded" /\ req[r1].status = 500
    /\ req[r2].state = "responded" /\ req[r2].afterFailure
    /\ req[r2].handler \in ProxyHandlers /\ req[r2].status = 200

----------------------------------------------------------------------------
\* C8: the authorization popup is opened only while the token store is empty:
\* once a token is stored no operation opens the popup again, whatever the
\* interleaving of the operations in flight.
C8_PopupOnlyWithoutToken == popupsWithToken = 0
====
